---- MODULE Spec2Model ----
(***************************************************************************)
(* jj-run: run a user command on every change selected by a revset, in a   *)
(* scratch workspace, then restore the results onto the original changes.  *)
(*                                                                         *)
(* The model follows src/jj-run.py statement by statement.  One action is  *)
(* one call of the gateway `run` (one external command) together with the  *)
(* Python statements around it.  Every internal jj command may exit        *)
(* nonzero, which `run` turns into CalledProcessError (check=True); the    *)
(* user command exits with any code of RetCodes and may or may not write   *)
(* files in the workspace.  Exceptions are modelled by the variable exc    *)
(* and by the positions the try/finally and with blocks unwind through.    *)
(*                                                                         *)
(* jj itself is outside the repository.  It is modelled by what the        *)
(* commands the program issues do to a linear history: which changes are   *)
(* visible, their first parents, their content (a set of files), and the   *)
(* working-copy change of the scratch workspace.  A query of a single      *)
(* revision (`<workspace>@`, `@`) answers with exactly one record.         *)
(***************************************************************************)
EXTENDS Integers, Sequences, FiniteSets

\* Number of changes in the repository before the Run (a linear history
\* Root <- 1 <- 2 <- ... <- MaxChanges).
MaxChanges == 3

\* Exit codes the user command may return, as subprocess reports them:
\* 0 success, 2 an ordinary failure, -9 the shell killed by a signal.
RetCodes == {0, 2, -9}

Strategies == {"continue", "stop", "fatal"}

\* ---- change identities ------------------------------------------------
Root == 0
Originals == 1..MaxChanges
\* The change `jj workspace add` creates for the new workspace.
Bootstrap == MaxChanges + 1
\* The change `jj new c` creates on top of the original change c.
Scratch(c) == MaxChanges + 1 + c
ScratchIds == {Scratch(c) : c \in Originals}
AllIds == {Root} \cup Originals \cup {Bootstrap} \cup ScratchIds
\* The file the user command adds when it modifies the scratch change on c.
Mark(c) == MaxChanges + c
NoArg == -1

\* ---- exceptions -------------------------------------------------------
NoExc == [kind |-> "none", code |-> 0]
CalledProcessError == [kind |-> "CalledProcessError", code |-> 1]
SystemExit(rc) == [kind |-> "SystemExit", code |-> rc]

VARIABLES
    err_strategy,     \* args.err_strategy
    pc,               \* position of the single thread of control
    exc,              \* exception being propagated, NoExc if none
    exitStatus,       \* process exit status, -1 while running
    registered,       \* the scratch workspace is registered in the repository
    workspace_change, \* run_jj_command: workspace_change.change_id
    changes,          \* run_jj_command / process_changes: input change list
    idx,              \* process_changes: loop index (1-based)
    pc_new_changes,   \* process_changes: its local new_changes
    exit_early,       \* process_changes: exit_early
    returncode,       \* process_changes: result.returncode
    all_successful,   \* process_changes: all_successful
    new_changes,      \* run_jj_command: new_changes
    ridx,             \* rewrite_parents: position in its loop
    modified_count,   \* rewrite_parents: modified_count, -1 before it starts
    reports,          \* stdout of each emptiness query, in order
    abandon_list,     \* abandon_changes: its argument
    aidx,             \* abandon_changes: position in its loop
    present,          \* repository: the visible changes
    parent,           \* repository: first parent of each change
    content,          \* repository: files of each change
    wc,               \* repository: working-copy change of the scratch workspace
    dirty,            \* files written in the workspace directory, not yet snapshotted
    out,              \* failure reports printed by handle_errors, in order
    ops,              \* every external command issued so far, in order
    gcl_stdout,       \* get_change_list: change_process.stdout
    combined_output,  \* get_change_list: combined_output
    gcl_changes,      \* get_change_list: its local list, changes
    gcl_pc,           \* get_change_list: position, "idle" when not called
    iterations        \* get_change_list: iterations of its while loop so far

runVars == <<err_strategy, pc, exc, exitStatus, registered, workspace_change, changes,
             idx, pc_new_changes, exit_early, returncode, all_successful, new_changes,
             ridx, modified_count, reports, abandon_list, aidx,
             present, parent, content, wc, dirty, out, ops>>
parseVars == <<gcl_stdout, combined_output, gcl_changes, gcl_pc, iterations>>
vars == <<runVars, parseVars>>

batchVars == <<idx, pc_new_changes, exit_early, returncode, all_successful>>
rewriteVars == <<ridx, modified_count, reports>>
abandonVars == <<abandon_list, aidx>>
repoVars == <<present, parent, content, wc>>

\* ---- the gateway ------------------------------------------------------
\* abandon_changes passing no --ignore-working-copy.
CommandFlagsPlainAbandon(name) ==
    CASE name = "restore" -> {"--restore-descendants"}
      [] name \in {"log", "log_empty"} -> {"--no-graph"}
      [] name = "op_log" -> {"--no-graph", "--no-pager"}
      [] OTHER -> {}

\* The options the program passes with each jj command.
CommandFlags(name) ==
    CASE name = "abandon" -> {"--ignore-working-copy"}
      [] name = "restore" -> {"--restore-descendants"}
      [] name \in {"log", "log_empty"} -> {"--no-graph"}
      [] name = "op_log" -> {"--no-graph", "--no-pager"}
      [] OTHER -> {}

\* One issued command: what, on which change, in which directory, with which
\* options, and its exit code.
Op(name, arg, cwd, rc) ==
    [op |-> name, arg |-> arg, cwd |-> cwd, rc |-> rc, flags |-> CommandFlags(name)]
Issue(name, arg, cwd, rc) == ops' = Append(ops, Op(name, arg, cwd, rc))
\* Exit codes of an internal jj command: success, or a fault.
JjCodes == {0, 1}

\* ---- the repository, as the jj commands the program issues change it ---
InitContent == [i \in AllIds |-> IF i \in Originals THEN 1..i ELSE {}]
InitParent == [i \in AllIds |-> IF i \in Originals THEN i - 1 ELSE Root]

\* `jj log -r <revset>` lists heads first; in a linear history that is by
\* descending identity.
RECURSIVE LogOrder(_)
LogOrder(S) ==
    IF S = {} THEN <<>>
    ELSE LET m == CHOOSE x \in S : \A y \in S : y <= x
         IN <<m>> \o LogOrder(S \ {m})

\* A working-copy change jj drops when the workspace moves off it: one with
\* no content of its own, no description and no children.
Discardable(x) ==
    /\ x \in present
    /\ x \in {Bootstrap} \cup ScratchIds
    /\ content[x] = content[parent[x]]
    /\ \A y \in present : parent[y] # x

\* `jj workspace add`: registers the workspace; its working copy is a new
\* empty change beside the caller's.
JjWorkspaceAdd ==
    /\ present' = present \cup {Bootstrap}
    /\ parent' = [parent EXCEPT ![Bootstrap] = MaxChanges - 1]
    /\ content' = [content EXCEPT ![Bootstrap] = content[MaxChanges - 1]]
    /\ wc' = Bootstrap

\* A jj command run in the workspace directory first snapshots the files
\* written there into the working-copy change.  The first such command after
\* the user command is the query of "@".
JjSnapshot ==
    /\ content' = [content EXCEPT ![wc] = @ \cup dirty]
    /\ dirty' = {}

\* `jj new c` in the workspace: a new empty change on c becomes the working
\* copy.
JjNew(c) ==
    /\ present' = (IF Discardable(wc) THEN present \ {wc} ELSE present) \cup {Scratch(c)}
    /\ parent' = [parent EXCEPT ![Scratch(c)] = c]
    /\ content' = [content EXCEPT ![Scratch(c)] = content[c]]
    /\ wc' = Scratch(c)

\* `jj edit p` in the workspace: p becomes the working copy.
JjEdit(p) ==
    /\ present' = IF Discardable(wc) /\ wc # p THEN present \ {wc} ELSE present
    /\ wc' = p
    /\ UNCHANGED <<parent, content>>

\* `jj restore --from s` without --restore-descendants: the descendants of
\* the working copy are rebased with their diffs, so whatever the restore
\* adds to the working copy shows up in each of them.
JjRestoreRebasing(s) ==
    /\ content' = [d \in AllIds |->
                     IF d = wc THEN content[s]
                     ELSE IF d \in present
                             /\ (IF d \in Originals THEN d ELSE parent[d]) >= wc
                          THEN content[d] \cup (content[s] \ content[wc])
                          ELSE content[d]]
    /\ UNCHANGED <<present, parent, wc>>

\* `jj restore --from s --restore-descendants` in the workspace: the working
\* copy takes the content of s; every descendant keeps its content.
JjRestore(s) ==
    /\ content' = [content EXCEPT ![wc] = content[s]]
    /\ UNCHANGED <<present, parent, wc>>

\* `jj abandon present(x) --ignore-working-copy`: x disappears if it is
\* there, nothing happens if it is not.
JjAbandon(x) ==
    /\ present' = present \ {x}
    /\ UNCHANGED <<parent, content, wc>>

\* `jj abandon x --ignore-working-copy`, the revset naming the change
\* directly: jj fails when x does not exist.
JjAbandonCodesBare(x) == IF x \in present THEN JjCodes ELSE {1}

\* Exit codes of `jj abandon present(x) --ignore-working-copy`: present()
\* makes an absent x an empty revset, so absence is no reason to fail.
JjAbandonCodes(x) == JjCodes

\* `jj log -T json(empty) -r present(x) --no-graph`: nothing when x is
\* absent, else whether x has the content of its parent.
LogEmpty(x) ==
    IF x \notin present THEN ""
    ELSE IF content[x] = content[parent[x]] THEN "true" ELSE "false"

\* The record `jj log -T json(self)` prints for a change.
Change(x) == [change_id |-> x, parents |-> <<parent[x]>>]

\* ---- pure parts of the program ------------------------------------------
\* is_change_empty that takes only the answer "true" for empty, so an absent
\* change counts as modified.
IsChangeEmptyOnlyTrue(stdout) == stdout = "true"

\* is_change_empty: result.stdout.strip() != "false"
IsChangeEmpty(stdout) == stdout # "false"

\* run_jj_command: the query "(revset) ~ workspace_change ~ root()", where
\* revset is the set of changes the user's expression denotes.
Select(revset, ws) == LogOrder((revset \ {ws}) \ {Root})

\* handle_errors with the fatal case returning True like the stop case.
HandleErrorsFatalReturns(rc, strategy) ==
    [raise |-> FALSE, exit_early |-> rc # 0 /\ strategy # "continue",
     report |-> IF rc = 0 THEN "none"
                ELSE CASE strategy = "continue" -> "Error while processing change"
                       [] strategy = "stop" -> "Stopped on change [with fail]"
                       [] strategy = "fatal" -> "Fatal error at change"]

\* handle_errors that prints nothing under continue.
HandleErrorsQuietContinue(rc, strategy) ==
    IF rc # 0
    THEN CASE strategy = "continue" ->
                [raise |-> FALSE, exit_early |-> FALSE, report |-> "none"]
           [] strategy = "stop" ->
                [raise |-> FALSE, exit_early |-> TRUE,
                 report |-> "Stopped on change [with fail]"]
           [] strategy = "fatal" ->
                [raise |-> TRUE, exit_early |-> FALSE,
                 report |-> "Fatal error at change"]
    ELSE [raise |-> FALSE, exit_early |-> FALSE, report |-> "none"]

\* handle_errors: what it does with a result under a strategy, and the
\* first line of what it prints ("none": nothing).
HandleErrors(rc, strategy) ==
    IF rc # 0
    THEN CASE strategy = "continue" ->
                [raise |-> FALSE, exit_early |-> FALSE,
                 report |-> "Error while processing change"]
           [] strategy = "stop" ->
                [raise |-> FALSE, exit_early |-> TRUE,
                 report |-> "Stopped on change [with fail]"]
           [] strategy = "fatal" ->
                [raise |-> TRUE, exit_early |-> FALSE,
                 report |-> "Fatal error at change"]
    ELSE [raise |-> FALSE, exit_early |-> FALSE, report |-> "none"]

\* change_id[:12]: the form of a change identity that is printed.
Short(id) == [prefix |-> id]

\* format_error_msg under the line handle_errors puts before it: the printed
\* identity and the return code, written to stdout after `at` commands.
FailureReport(marker, change, rc, at) ==
    [stream |-> "stdout", marker |-> marker, change |-> change, code |-> rc,
     at |-> at]

\* process_changes whose success flag reflects the last command only.
ClassifyLastOnly(flag, rc) == rc = 0

\* process_changes: if result.returncode != 0: all_successful = False
Classify(flag, rc) == flag /\ rc = 0

\* process_changes with the early exit taken after every failure, whatever
\* the strategy.
AfterRecordBreakOnFailure(early, strategy) ==
    IF early \/ returncode # 0
    THEN IF strategy = "stop" THEN "raise" ELSE "break"
    ELSE "next"

\* process_changes that never leaves its loop early.
AfterRecordNeverStops(early, strategy) == "next"

\* process_changes, after the new change is recorded: raise SystemExit,
\* leave the loop, or go on.
AfterRecord(early, strategy) ==
    IF early
    THEN IF strategy = "stop" THEN "raise" ELSE "break"
    ELSE "next"

\* run_jj_command, finally clause: what it abandons.
FinallyAbandonList(nc, ws) ==
    [i \in 1..(Len(nc) + 1) |-> IF i <= Len(nc) THEN nc[i].change_id ELSE ws]

\* A managed_workspace without try/finally: forget only after a normal exit.
ManagedWorkspaceExitNoFinally(e) == IF e = NoExc THEN "forget" ELSE "main_exit"

\* managed_workspace: where control goes when the with-body is left with
\* exception e pending (NoExc: left normally).
ManagedWorkspaceExit(e) == "forget"

\* __main__ whose except clause catches every exception, so that under
\* continue nothing propagates.
MainExitStatusCatchAll(e, strategy) ==
    CASE e.kind = "none" -> 0
      [] strategy \in {"fatal", "stop"} ->
            IF e.kind = "SystemExit" THEN e.code % 256 ELSE 1
      [] OTHER -> 0

\* __main__ and the interpreter: the exit status of the process, given what
\* came out of the try block.
MainExitStatus(e, strategy) ==
    CASE e.kind = "none" -> 0
      [] e.kind = "SystemExit" ->
            IF strategy \in {"fatal", "stop"} THEN e.code % 256 ELSE 0
      [] OTHER -> 1

\* get_change_list is not being followed step by step.
ParseIdle ==
    /\ gcl_stdout = <<>>
    /\ combined_output = <<>>
    /\ gcl_changes = <<>>
    /\ gcl_pc = "idle"
    /\ iterations = 0

Init ==
    /\ ParseIdle
    /\ err_strategy \in Strategies
    /\ pc = "main_before_op"
    /\ exc = NoExc
    /\ exitStatus = -1
    /\ registered = FALSE
    /\ workspace_change = NoArg
    /\ changes = <<>>
    /\ idx = 0
    /\ pc_new_changes = <<>>
    /\ exit_early = FALSE
    /\ returncode = 0
    /\ all_successful = TRUE
    /\ new_changes = <<>>
    /\ ridx = 0
    /\ modified_count = -1
    /\ reports = <<>>
    /\ abandon_list = <<>>
    /\ aidx = 0
    /\ present = {Root} \cup Originals
    /\ parent = InitParent
    /\ content = InitContent
    /\ wc = NoArg
    /\ dirty = {}
    /\ out = <<>>
    /\ ops = <<>>

\* An exception leaves the try block of run_jj_command (or the block ends):
\* the finally clause starts abandoning.
EnterFinally ==
    /\ abandon_list' = FinallyAbandonList(new_changes, workspace_change)
    /\ aidx' = 1
    /\ pc' = "abandon"

\* __main__: before_op = get_current_op_id()
MainBeforeOp ==
    /\ pc = "main_before_op"
    /\ \E rc \in JjCodes :
        /\ Issue("op_log", NoArg, ".", rc)
        /\ IF rc = 0 THEN pc' = "current_op" /\ exc' = exc
                     ELSE pc' = "main_exit" /\ exc' = CalledProcessError
    /\ UNCHANGED <<parseVars, out, err_strategy, dirty, exitStatus, registered, workspace_change, changes,
                   new_changes, batchVars, rewriteVars, abandonVars, repoVars>>

\* run_jj_command: current_operation = get_current_op_id()
CurrentOp ==
    /\ pc = "current_op"
    /\ \E rc \in JjCodes :
        /\ Issue("op_log", NoArg, ".", rc)
        /\ IF rc = 0 THEN pc' = "create_workspace" /\ exc' = exc
                     ELSE pc' = "main_exit" /\ exc' = CalledProcessError
    /\ UNCHANGED <<parseVars, out, err_strategy, dirty, exitStatus, registered, workspace_change, changes,
                   new_changes, batchVars, rewriteVars, abandonVars, repoVars>>

\* managed_workspace: workspace_path, workspace_name = create_workspace()
CreateWorkspace ==
    /\ pc = "create_workspace"
    /\ \E rc \in JjCodes :
        /\ Issue("workspace_add", NoArg, ".", rc)
        /\ IF rc = 0
           THEN /\ JjWorkspaceAdd
                /\ registered' = TRUE
                /\ pc' = "get_workspace_change"
                /\ exc' = exc
           ELSE /\ pc' = "main_exit"
                /\ exc' = CalledProcessError
                /\ UNCHANGED <<registered, repoVars>>
    /\ UNCHANGED <<parseVars, out, err_strategy, dirty, exitStatus, workspace_change, changes,
                   new_changes, batchVars, rewriteVars, abandonVars>>

\* run_jj_command: [workspace_change] = get_change_list(f"{workspace_name}@")
GetWorkspaceChange ==
    /\ pc = "get_workspace_change"
    /\ \E rc \in JjCodes :
        /\ Issue("log", NoArg, "ws", rc)
        /\ IF rc = 0
           THEN /\ workspace_change' = Change(wc).change_id
                /\ pc' = "select"
                /\ exc' = exc
           ELSE /\ pc' = ManagedWorkspaceExit(CalledProcessError)
                /\ exc' = CalledProcessError
                /\ UNCHANGED workspace_change
    /\ UNCHANGED <<parseVars, out, err_strategy, dirty, exitStatus, registered, changes,
                   new_changes, batchVars, rewriteVars, abandonVars, repoVars>>

\* The empty-selection return without the abandon of the workspace change.
EmptySelectionNoAbandon ==
    /\ abandon_list' = abandon_list
    /\ aidx' = aidx
    /\ pc' = ManagedWorkspaceExit(NoExc)

\* run_jj_command, "if not changes": abandon the workspace change and return.
EmptySelection ==
    /\ abandon_list' = <<workspace_change>>
    /\ aidx' = 1
    /\ pc' = "abandon"

\* run_jj_command: changes = get_change_list(...), then the empty-selection
\* return or the entry into process_changes.
SelectChanges ==
    /\ pc = "select"
    /\ \E rc \in JjCodes, revset \in SUBSET (present \cup {Root}) :
        /\ Issue("log", NoArg, "ws", rc)
        /\ IF rc = 0
           THEN /\ changes' = Select(revset, workspace_change)
                /\ exc' = exc
                /\ IF changes' = <<>>
                   THEN /\ EmptySelection
                        /\ UNCHANGED batchVars
                   ELSE /\ pc' = "materialize"
                        /\ idx' = 1
                        /\ pc_new_changes' = <<>>
                        /\ exit_early' = FALSE
                        /\ all_successful' = TRUE
                        /\ UNCHANGED <<returncode, abandonVars>>
           ELSE /\ pc' = ManagedWorkspaceExit(CalledProcessError)
                /\ exc' = CalledProcessError
                /\ UNCHANGED <<changes, batchVars, abandonVars>>
    /\ UNCHANGED <<parseVars, out, err_strategy, dirty, exitStatus, registered, workspace_change,
                   new_changes, rewriteVars, repoVars>>

\* process_changes iterating over reversed(changes).
CurrentChangeReversed == changes[Len(changes) + 1 - idx]

\* process_changes: for idx, change_data in enumerate(changes, 1):
\* change_id = change_data.change_id
CurrentChange == changes[idx]

\* process_changes running `jj new` without check=True: a failed `jj new`
\* raises nothing and the loop body goes on.
MaterializeUnchecked ==
    /\ pc = "materialize"
    /\ \E rc \in JjCodes :
        /\ Issue("new", CurrentChange, "ws", rc)
        /\ IF rc = 0 THEN JjNew(CurrentChange) ELSE UNCHANGED repoVars
        /\ pc' = "command"
        /\ exc' = exc
        /\ UNCHANGED abandonVars
    /\ UNCHANGED <<parseVars, out, err_strategy, dirty, exitStatus, registered,
                   workspace_change, changes, new_changes, batchVars, rewriteVars>>

\* process_changes: run(["jj", "new", change_id], cwd=workspace_path)
Materialize ==
    /\ pc = "materialize"
    /\ \E rc \in JjCodes :
        /\ Issue("new", CurrentChange, "ws", rc)
        /\ IF rc = 0
           THEN /\ JjNew(CurrentChange)
                /\ pc' = "command"
                /\ exc' = exc
                /\ UNCHANGED abandonVars
           ELSE /\ exc' = CalledProcessError
                /\ EnterFinally
                /\ UNCHANGED repoVars
    /\ UNCHANGED <<parseVars, out, err_strategy, dirty, exitStatus, registered, workspace_change, changes,
                   new_changes, batchVars, rewriteVars>>

\* process_changes: the user command (its CalledProcessError is caught),
\* print_command_result, all_successful, handle_errors.
RunCommand ==
    /\ pc = "command"
    /\ \E rc \in RetCodes, modified \in BOOLEAN :
        /\ Issue("command", CurrentChange, "ws", rc)
        /\ dirty' = IF modified THEN {Mark(CurrentChange)} ELSE {}
        /\ returncode' = rc
        /\ all_successful' = Classify(all_successful, rc)
        /\ LET h == HandleErrors(rc, err_strategy)
           IN /\ out' = IF h.report = "none" THEN out
                        ELSE Append(out, FailureReport(h.report, Short(CurrentChange),
                                                       rc, Len(ops')))
              /\ IF h.raise
                 THEN /\ exc' = SystemExit(rc)
                      /\ EnterFinally
                      /\ UNCHANGED exit_early
                 ELSE /\ exit_early' = h.exit_early
                      /\ pc' = "record"
                      /\ exc' = exc
                      /\ UNCHANGED abandonVars
    /\ UNCHANGED <<parseVars, err_strategy, exitStatus, registered, workspace_change,
                   changes, new_changes, idx, pc_new_changes, rewriteVars, repoVars>>

\* process_changes: new_changes += get_change_list("@"), then the early
\* exit, the next iteration, or the return into run_jj_command.
RecordNewChange ==
    /\ pc = "record"
    /\ \E rc \in JjCodes :
        /\ Issue("log", NoArg, "ws", rc)
        /\ IF rc = 0
           THEN /\ JjSnapshot
                /\ pc_new_changes' = Append(pc_new_changes, Change(wc))
                /\ LET after == AfterRecord(exit_early, err_strategy)
                   IN CASE after = "raise" ->
                             /\ exc' = SystemExit(returncode)
                             /\ UNCHANGED <<new_changes, idx, rewriteVars>>
                             /\ EnterFinally
                        [] after = "next" /\ idx < Len(changes) ->
                             /\ idx' = idx + 1
                             /\ pc' = "materialize"
                             /\ exc' = exc
                             /\ UNCHANGED <<new_changes, rewriteVars, abandonVars>>
                        [] OTHER ->
                             /\ new_changes' = pc_new_changes'
                             /\ ridx' = 1
                             /\ modified_count' = 0
                             /\ pc' = "check_empty"
                             /\ exc' = exc
                             /\ UNCHANGED <<idx, reports, abandonVars>>
           ELSE /\ exc' = CalledProcessError
                /\ UNCHANGED <<new_changes, idx, pc_new_changes, rewriteVars, content, dirty>>
                /\ EnterFinally
    /\ UNCHANGED <<parseVars, out, err_strategy, exitStatus, registered, workspace_change, changes,
                   exit_early, returncode, all_successful, present, parent, wc>>

\* A rewrite_parents called from inside the loop of process_changes: when
\* it returns, the loop goes on.
RewriteAdvanceIntoBatch ==
    IF ridx < Len(new_changes)
    THEN ridx' = ridx + 1 /\ pc' = "check_empty"
    ELSE ridx' = ridx /\ pc' = "materialize"

\* A run_jj_command without the update-stale in the caller's directory.
RewriteAdvanceNoRefresh ==
    IF ridx < Len(new_changes)
    THEN ridx' = ridx + 1 /\ pc' = "check_empty"
    ELSE ridx' = ridx /\ pc' = "update_stale_ws"

\* rewrite_parents: the next iteration of its loop, or its return followed
\* by the first update-stale.
RewriteAdvance ==
    IF ridx < Len(new_changes)
    THEN ridx' = ridx + 1 /\ pc' = "check_empty"
    ELSE ridx' = ridx /\ pc' = "update_stale_orig"

\* rewrite_parents: if not is_change_empty(workspace_path, change.change_id)
CheckEmpty ==
    /\ pc = "check_empty"
    /\ \E rc \in JjCodes :
        /\ Issue("log_empty", new_changes[ridx].change_id, "ws", rc)
        /\ IF rc = 0
           THEN /\ reports' = Append(reports, LogEmpty(new_changes[ridx].change_id))
                /\ IF IsChangeEmpty(LogEmpty(new_changes[ridx].change_id))
                   THEN RewriteAdvance
                   ELSE ridx' = ridx /\ pc' = "edit"
                /\ exc' = exc
                /\ UNCHANGED abandonVars
           ELSE /\ exc' = CalledProcessError
                /\ UNCHANGED <<ridx, reports>>
                /\ EnterFinally
    /\ UNCHANGED <<parseVars, out, err_strategy, dirty, exitStatus, registered, workspace_change, changes,
                   new_changes, batchVars, modified_count, repoVars>>

\* rewrite_parents: run(["jj", "edit", change.parents[0]])
Edit ==
    /\ pc = "edit"
    /\ \E rc \in JjCodes :
        /\ Issue("edit", new_changes[ridx].parents[1], "ws", rc)
        /\ IF rc = 0
           THEN /\ JjEdit(new_changes[ridx].parents[1])
                /\ pc' = "restore"
                /\ exc' = exc
                /\ UNCHANGED abandonVars
           ELSE /\ exc' = CalledProcessError
                /\ EnterFinally
                /\ UNCHANGED repoVars
    /\ UNCHANGED <<parseVars, out, err_strategy, dirty, exitStatus, registered, workspace_change, changes,
                   new_changes, batchVars, rewriteVars>>

\* rewrite_parents: run(["jj", "restore", "--from", change.change_id,
\* "--restore-descendants"]); modified_count += 1
Restore ==
    /\ pc = "restore"
    /\ \E rc \in JjCodes :
        /\ Issue("restore", new_changes[ridx].change_id, "ws", rc)
        /\ IF rc = 0
           THEN /\ JjRestore(new_changes[ridx].change_id)
                /\ modified_count' = modified_count + 1
                /\ RewriteAdvance
                /\ exc' = exc
                /\ UNCHANGED abandonVars
           ELSE /\ exc' = CalledProcessError
                /\ EnterFinally
                /\ UNCHANGED <<ridx, modified_count, repoVars>>
    /\ UNCHANGED <<parseVars, out, err_strategy, dirty, exitStatus, registered, workspace_change, changes,
                   new_changes, batchVars, reports>>

\* run_jj_command: run(["jj", "workspace", "update-stale"], cwd=".")
UpdateStaleOrig ==
    /\ pc = "update_stale_orig"
    /\ \E rc \in JjCodes :
        /\ Issue("update_stale", NoArg, ".", rc)
        /\ IF rc = 0
           THEN /\ pc' = "update_stale_ws"
                /\ exc' = exc
                /\ UNCHANGED abandonVars
           ELSE /\ exc' = CalledProcessError
                /\ EnterFinally
    /\ UNCHANGED <<parseVars, out, err_strategy, dirty, exitStatus, registered, workspace_change, changes,
                   new_changes, batchVars, rewriteVars, repoVars>>

\* run_jj_command: run(["jj", "workspace", "update-stale"],
\* cwd=workspace_path); the try block ends and its finally clause starts.
UpdateStaleWs ==
    /\ pc = "update_stale_ws"
    /\ \E rc \in JjCodes :
        /\ Issue("update_stale", NoArg, "ws", rc)
        /\ exc' = IF rc = 0 THEN exc ELSE CalledProcessError
        /\ EnterFinally
    /\ UNCHANGED <<parseVars, out, err_strategy, dirty, exitStatus, registered, workspace_change, changes,
                   new_changes, batchVars, rewriteVars, repoVars>>

\* abandon_changes: one iteration of its loop; after the last one the
\* with-body is left (return, end of body, or the pending exception).
AbandonStep ==
    /\ pc = "abandon"
    /\ \E rc \in JjAbandonCodes(abandon_list[aidx]) :
        /\ Issue("abandon", abandon_list[aidx], ".", rc)
        /\ IF rc = 0
           THEN /\ JjAbandon(abandon_list[aidx])
                /\ exc' = exc
                /\ IF aidx < Len(abandon_list)
                   THEN aidx' = aidx + 1 /\ pc' = "abandon"
                   ELSE aidx' = aidx /\ pc' = ManagedWorkspaceExit(exc)
           ELSE /\ exc' = CalledProcessError
                /\ pc' = ManagedWorkspaceExit(CalledProcessError)
                /\ UNCHANGED <<aidx, repoVars>>
    /\ UNCHANGED <<parseVars, out, err_strategy, dirty, exitStatus, registered, workspace_change, changes,
                   new_changes, batchVars, rewriteVars, abandon_list>>

\* managed_workspace, finally: forget_workspace(workspace_name)
ForgetWorkspace ==
    /\ pc = "forget"
    /\ \E rc \in JjCodes :
        /\ Issue("forget", NoArg, ".", rc)
        /\ registered' = IF rc = 0 THEN FALSE ELSE registered
        /\ exc' = IF rc = 0 THEN exc ELSE CalledProcessError
        /\ pc' = IF exc' = NoExc THEN "main_after_op" ELSE "main_exit"
    /\ UNCHANGED <<parseVars, out, err_strategy, dirty, exitStatus, workspace_change, changes,
                   new_changes, batchVars, rewriteVars, abandonVars, repoVars>>

\* __main__: after_op = get_current_op_id()
MainAfterOp ==
    /\ pc = "main_after_op"
    /\ \E rc \in JjCodes :
        /\ Issue("op_log", NoArg, ".", rc)
        /\ exc' = IF rc = 0 THEN exc ELSE CalledProcessError
        /\ pc' = "main_exit"
    /\ UNCHANGED <<parseVars, out, err_strategy, dirty, exitStatus, registered, workspace_change, changes,
                   new_changes, batchVars, rewriteVars, abandonVars, repoVars>>

\* __main__: the except clause, the closing prints, and the interpreter
\* ending the process.
MainExit ==
    /\ pc = "main_exit"
    /\ exitStatus' = MainExitStatus(exc, err_strategy)
    /\ pc' = "exit"
    /\ UNCHANGED <<parseVars, out, err_strategy, dirty, exc, registered, workspace_change, changes,
                   new_changes, batchVars, rewriteVars, abandonVars, repoVars, ops>>

Next ==
    \/ MainBeforeOp
    \/ CurrentOp
    \/ CreateWorkspace
    \/ GetWorkspaceChange
    \/ SelectChanges
    \/ Materialize
    \/ RunCommand
    \/ RecordNewChange
    \/ CheckEmpty
    \/ Edit
    \/ Restore
    \/ UpdateStaleOrig
    \/ UpdateStaleWs
    \/ AbandonStep
    \/ ForgetWorkspace
    \/ MainAfterOp
    \/ MainExit

Spec == Init /\ [][Next]_vars

\* ---- get_change_list: parsing the answer of `jj log -T json(self)` ---------
\* Longest answer considered, in characters.
MaxLen == 5
\* Iterations of the while loop that are followed.
MaxIterations == 6

\* The characters of an answer.  "{" followed by a kind letter stands for one
\* complete JSON object: F with all four keys, O with the optional keys
\* (description, parents) left out, K with change_id left out.  Anything else
\* (a "{" with no kind letter after it, a kind letter on its own) is text the
\* decoder rejects.  " " and "\n" are the whitespace.
RecordKinds == {"F", "O", "K"}
Chars == {"{", " ", "\n"} \cup RecordKinds
Responses == UNION {[1..n -> Chars] : n \in 0..MaxLen}

\* The decoded object of each kind.
Entry(kind) ==
    CASE kind = "F" -> [change_id |-> "c", commit_id |-> "k",
                        description |-> "d", parents |-> <<"p">>]
      [] kind = "O" -> [change_id |-> "c", commit_id |-> "k"]
      [] kind = "K" -> [commit_id |-> "k"]

IsSpace(ch) == ch \in {" ", "\n"}

\* str.lstrip()
RECURSIVE LStrip(_)
LStrip(s) == IF s # <<>> /\ IsSpace(Head(s)) THEN LStrip(Tail(s)) ELSE s

\* str.rstrip()
RECURSIVE RStrip(_)
RStrip(s) ==
    IF s # <<>> /\ IsSpace(s[Len(s)]) THEN RStrip(SubSeq(s, 1, Len(s) - 1)) ELSE s

\* str.strip()
Strip(s) == RStrip(LStrip(s))

\* str.find(ch): 0-based position of the first ch, -1 if there is none.
Find(s, ch) ==
    IF \E i \in DOMAIN s : s[i] = ch
    THEN (CHOOSE i \in DOMAIN s : s[i] = ch /\ \A j \in 1..(i - 1) : s[j] # ch) - 1
    ELSE -1

\* s[k:] for k >= 0
SliceFrom(s, k) == SubSeq(s, k + 1, Len(s))

\* json.JSONDecoder().raw_decode(s): the object at the very start of s and
\* the position after it, or JSONDecodeError; it skips no whitespace.
RawDecode(s) ==
    IF Len(s) >= 2 /\ s[1] = "{" /\ s[2] \in RecordKinds
    THEN [ok |-> TRUE, entry |-> Entry(s[2]), index |-> 2]
    ELSE [ok |-> FALSE, entry |-> Entry("K"), index |-> 0]

\* dict.get(key, default)
Get(d, key, default) == IF key \in DOMAIN d THEN d[key] ELSE default

\* A get_change_list that falls back on the text jj shows for a change
\* without description.
MakeChangePlaceholder(e) ==
    [change_id |-> e.change_id, commit_id |-> e.commit_id,
     description |-> Get(e, "description", "(no description set)"),
     parents |-> Get(e, "parents", <<>>)]

\* Change(change_id=..., commit_id=..., description=..., parents=...)
MakeChange(e) ==
    [change_id |-> e.change_id, commit_id |-> e.commit_id,
     description |-> Get(e, "description", ""),
     parents |-> Get(e, "parents", <<>>)]

\* except JSONDecodeError: the rest of the input after the skip.
SkipLine(t) == SliceFrom(t, Find(t, "\n") + 1)

\* get_change_list: if not change_process.stdout: return []; changes = [];
\* combined_output = change_process.stdout.strip()
ParseStart ==
    /\ gcl_pc = "call"
    /\ gcl_changes' = <<>>
    /\ IF gcl_stdout = <<>>
       THEN gcl_pc' = "returned" /\ UNCHANGED combined_output
       ELSE gcl_pc' = "loop" /\ combined_output' = Strip(gcl_stdout)
    /\ UNCHANGED <<runVars, gcl_stdout, iterations>>

\* A try block whose except clause names KeyError as well, so that a record
\* without an identity is passed over like undecodable text.
TryOutcomeKeyErrorCaught(d) ==
    IF d.ok /\ {"change_id", "commit_id"} \subseteq DOMAIN d.entry
    THEN "appended"
    ELSE "JSONDecodeError"

\* get_change_list, the try block: how it ends for a decoding attempt.  The
\* subscripts change_entry["change_id"] and change_entry["commit_id"] raise
\* KeyError on a missing key; the except clause catches JSONDecodeError only.
TryOutcome(d) ==
    IF ~d.ok THEN "JSONDecodeError"
    ELSE IF {"change_id", "commit_id"} \subseteq DOMAIN d.entry
         THEN "appended"
         ELSE "KeyError"

\* get_change_list: one iteration of the while loop.
ParseIteration ==
    /\ gcl_pc = "loop"
    /\ combined_output # <<>>
    /\ iterations < MaxIterations
    /\ iterations' = iterations + 1
    /\ LET d == RawDecode(combined_output)
           t == LStrip(combined_output)
       IN CASE TryOutcome(d) = "appended" ->
                 /\ gcl_changes' = Append(gcl_changes, MakeChange(d.entry))
                 /\ combined_output' = LStrip(SliceFrom(combined_output, d.index))
                 /\ gcl_pc' = "loop"
            [] TryOutcome(d) = "KeyError" ->
                 /\ gcl_pc' = "raised"
                 /\ UNCHANGED <<gcl_changes, combined_output>>
            [] OTHER ->
                 /\ UNCHANGED gcl_changes
                 /\ IF t = <<>>
                    THEN gcl_pc' = "returned" /\ combined_output' = t
                    ELSE gcl_pc' = "loop" /\ combined_output' = SkipLine(t)
    /\ UNCHANGED <<runVars, gcl_stdout>>

\* get_change_list: the while condition is false; return changes
ParseReturn ==
    /\ gcl_pc = "loop"
    /\ combined_output = <<>>
    /\ gcl_pc' = "returned"
    /\ UNCHANGED <<runVars, gcl_stdout, combined_output, gcl_changes, iterations>>

\* get_change_list called on each answer jj may give.
ParseInit ==
    /\ err_strategy = "continue"
    /\ pc = "main_before_op"
    /\ exc = NoExc
    /\ exitStatus = -1
    /\ registered = FALSE
    /\ workspace_change = NoArg
    /\ changes = <<>>
    /\ idx = 0
    /\ pc_new_changes = <<>>
    /\ exit_early = FALSE
    /\ returncode = 0
    /\ all_successful = TRUE
    /\ new_changes = <<>>
    /\ ridx = 0
    /\ modified_count = -1
    /\ reports = <<>>
    /\ abandon_list = <<>>
    /\ aidx = 0
    /\ present = {Root} \cup Originals
    /\ parent = InitParent
    /\ content = InitContent
    /\ wc = NoArg
    /\ dirty = {}
    /\ out = <<>>
    /\ ops = <<>>
    /\ gcl_stdout \in Responses
    /\ combined_output = <<>>
    /\ gcl_changes = <<>>
    /\ gcl_pc = "call"
    /\ iterations = 0

ParseNext ==
    \/ ParseStart
    \/ ParseIteration
    \/ ParseReturn

ParseSpec == ParseInit /\ [][ParseNext]_vars

\* ---- a Run whose first query is parsed step by step ------------------------
KeyError == [kind |-> "KeyError", code |-> 1]
ValueError == [kind |-> "ValueError", code |-> 1]

\* run_jj_command: get_change_list(f"{workspace_name}@") is called; jj answers
\* with any text.
ResolveCall ==
    /\ pc = "get_workspace_change"
    /\ \E rc \in JjCodes :
        /\ Issue("log", NoArg, "ws", rc)
        /\ IF rc = 0
           THEN /\ \E answer \in Responses : gcl_stdout' = answer
                /\ gcl_pc' = "call"
                /\ pc' = "resolving"
                /\ exc' = exc
           ELSE /\ pc' = ManagedWorkspaceExit(CalledProcessError)
                /\ exc' = CalledProcessError
                /\ UNCHANGED <<gcl_stdout, gcl_pc>>
    /\ UNCHANGED <<combined_output, gcl_changes, iterations, out, err_strategy, dirty,
                   exitStatus, registered, workspace_change, changes, new_changes,
                   batchVars, rewriteVars, abandonVars, repoVars>>

\* run_jj_command: get_change_list has ended; [workspace_change] = its list
\* (ValueError unless the list has one element), or its exception leaves the
\* with-body.
ResolveEnd ==
    /\ pc = "resolving"
    /\ gcl_pc \in {"returned", "raised"}
    /\ IF gcl_pc = "raised"
       THEN /\ exc' = KeyError
            /\ pc' = ManagedWorkspaceExit(KeyError)
            /\ UNCHANGED workspace_change
       ELSE IF Len(gcl_changes) = 1
            THEN /\ workspace_change' = Change(wc).change_id
                 /\ pc' = "select"
                 /\ exc' = exc
            ELSE /\ exc' = ValueError
                 /\ pc' = ManagedWorkspaceExit(ValueError)
                 /\ UNCHANGED workspace_change
    /\ UNCHANGED <<parseVars, out, err_strategy, dirty, exitStatus, registered, changes,
                   new_changes, batchVars, rewriteVars, abandonVars, repoVars, ops>>

ResolveNext ==
    \/ MainBeforeOp
    \/ CurrentOp
    \/ CreateWorkspace
    \/ ResolveCall
    \/ ParseStart
    \/ ParseIteration
    \/ ParseReturn
    \/ ResolveEnd
    \/ ForgetWorkspace
    \/ MainExit

ResolveSpec == Init /\ [][ResolveNext]_vars

\* ---- reading the log of issued commands --------------------------------
Done == pc = "exit"
Issued(name) == {i \in DOMAIN ops : ops[i].op = name}
IssuedOn(name, x) == {i \in DOMAIN ops : ops[i].op = name /\ ops[i].arg = x}
\* Internal jj commands are all but the user command.
IsFault(i) == ops[i].op # "command" /\ ops[i].rc # 0
Faulted == \E i \in DOMAIN ops : IsFault(i)
WorkspaceOpened == \E i \in Issued("workspace_add") : ops[i].rc = 0
\* Positions of the user-command invocations that returned nonzero.
Failures == {i \in DOMAIN ops : ops[i].op = "command" /\ ops[i].rc # 0}
PerChangeOps == {"new", "command", "edit", "restore"}
\* Position in the input list of the change an issued command is about.
InputIndex(x) == CHOOSE k \in 1..Len(changes) : changes[k] = x
\* The scratch changes the batch stage has created so far.
Produced == {Scratch(ops[i].arg) : i \in {j \in Issued("new") : ops[j].rc = 0}}

\* C1: on every exit path the workspace-forget command is issued exactly once
\* if `jj workspace add` succeeded and never if it did not (at no point more
\* often than that, and exactly that often once the process has ended).
C1_ForgetExactlyOnce ==
    /\ Cardinality(Issued("forget")) <= (IF WorkspaceOpened THEN 1 ELSE 0)
    /\ Done => Cardinality(Issued("forget")) = (IF WorkspaceOpened THEN 1 ELSE 0)

\* C1 witness: a Run aborted by SystemExit has ended with its one forget.
C1_Witness ==
    /\ Done
    /\ exc.kind = "SystemExit"
    /\ WorkspaceOpened
    /\ Cardinality(Issued("forget")) = 1

\* No materialize or user command is issued after log position i.
NothingStartedAfter(i) ==
    \A j \in DOMAIN ops : j > i => ops[j].op \notin {"new", "command"}

\* C2 as stated: under fatal, once the command returned nonzero r the process
\* ends with status exactly r, nothing later is materialized or run, and the
\* workspace registration is gone.
C2_FatalExitsWithCommandCode ==
    (Done /\ err_strategy = "fatal") =>
        \A i \in Failures :
            /\ exitStatus = ops[i].rc
            /\ NothingStartedAfter(i)
            /\ ~registered

\* The cleanup that follows a fatal abort ran without a fault.
CleanupClean(i) == \A j \in DOMAIN ops : j > i => ~IsFault(j)

\* C2 amended: under fatal, once the command returned nonzero r, nothing later
\* is materialized or run and the forget is issued before the process ends;
\* the status is r modulo 256 (r itself for r in 1..255) and the registration
\* is gone if neither the abandon nor the forget faults, and the status is 1
\* if one of them does.
C2_FatalAmended ==
    err_strategy = "fatal" =>
        \A i \in Failures :
            /\ NothingStartedAfter(i)
            /\ Done => /\ Cardinality(Issued("forget")) = 1
                       /\ CleanupClean(i) => exitStatus = ops[i].rc % 256 /\ ~registered
                       /\ ~CleanupClean(i) => exitStatus = 1

\* C2 witness: a fatal Run has ended after a failing command on the first of
\* several input changes, with a clean cleanup.
C2_Witness ==
    /\ Done
    /\ err_strategy = "fatal"
    /\ Len(changes) > 1
    /\ \E i \in Failures : CleanupClean(i) /\ exitStatus = 2

\* C3: under continue and without gateway faults, the command is run once on
\* each of the n input changes, the new-change list handed to the rewrite
\* step has n entries, and the exit status is 0.
C3_ContinueAttemptsAll ==
    (Done /\ err_strategy = "continue" /\ ~Faulted) =>
        /\ \A k \in 1..Len(changes) : Cardinality(IssuedOn("command", changes[k])) = 1
        /\ Cardinality(Issued("command")) = Len(changes)
        /\ Len(new_changes) = Len(changes)
        /\ Len(changes) > 0 => modified_count >= 0
        /\ exitStatus = 0

\* C3 witness: a continue Run over three changes, some failing and some not,
\* has ended.
C3_Witness ==
    /\ Done
    /\ err_strategy = "continue"
    /\ ~Faulted
    /\ Len(changes) = 3
    /\ Cardinality(Failures) = 2

C5_RewriterRunsAfterFailure ==
    (Done /\ err_strategy \in {"stop", "fatal"} /\ Failures # {} /\ ~Faulted) =>
        \A s \in Produced : LogEmpty(s) = "false" => IssuedOn("restore", s) # {}

\* The batch stage or the rewriter raised: one of their jj commands faulted,
\* or the user command failed under stop or fatal.
BatchOrRewriteRaised ==
    \E i \in DOMAIN ops :
        \/ ops[i].op \in {"new", "log_empty", "edit", "restore"} /\ ops[i].rc # 0
        \/ ops[i].op = "command" /\ ops[i].rc # 0 /\ err_strategy \in {"stop", "fatal"}
        \/ ops[i].op = "log" /\ ops[i].rc # 0 /\ i > 1 /\ ops[i - 1].op = "command"

\* No abandon and no forget of the cleanup faulted.
CleanupFaultFree ==
    \A i \in Issued("abandon") \cup Issued("forget") : ops[i].rc = 0

\* C6: on every exit path on which the batch stage or the rewriter raised,
\* an abandon has been issued for every scratch change created so far and for
\* the bootstrap change by the time the process ends (stated here for the
\* paths on which the cleanup itself runs without a fault).
C6_CleanupAbandonsAll ==
    (Done /\ BatchOrRewriteRaised /\ CleanupFaultFree) =>
        \A s \in Produced \cup {Bootstrap} : IssuedOn("abandon", s) # {}

\* C7: once the workspace is opened the bootstrap change is never in the
\* input list, and on every exit path an abandon for it has been issued by
\* the time the Run ends.
C7_BootstrapExcludedAndAbandoned ==
    WorkspaceOpened =>
        /\ \A k \in 1..Len(changes) : changes[k] # Bootstrap
        /\ Done => IssuedOn("abandon", Bootstrap) # {}

\* The selection query has answered, with no eligible change.
EmptySelected ==
    /\ Cardinality({i \in Issued("log") : ops[i].rc = 0}) >= 2
    /\ changes = <<>>

NoPerChangeOps == \A i \in DOMAIN ops : ops[i].op \notin PerChangeOps

\* C8 as stated: with an empty selection the Run issues no materialize, user
\* command, edit or restore, abandons the bootstrap change, forgets the
\* workspace and exits 0, under every strategy.
C8_EmptySelectionExitsZero ==
    EmptySelected =>
        /\ NoPerChangeOps
        /\ Done => /\ IssuedOn("abandon", Bootstrap) # {}
                   /\ Issued("forget") # {}
                   /\ exitStatus = 0

\* C8 amended: with an empty selection the Run issues no materialize, user
\* command, edit or restore, issues the abandon of the bootstrap change and
\* then the forget, once each, under every strategy; it exits 0 if no jj
\* command of the Run faults, and 1 if the abandon, the forget or the closing
\* operation query faults.
C8_EmptySelectionAmended ==
    EmptySelected =>
        /\ NoPerChangeOps
        /\ Done => /\ Cardinality(Issued("abandon")) = 1
                   /\ Cardinality(Issued("forget")) = 1
                   /\ \A i \in IssuedOn("abandon", Bootstrap) :
                         \A j \in Issued("forget") : i < j
                   /\ IssuedOn("abandon", Bootstrap) # {}
                   /\ exitStatus = (IF Faulted THEN 1 ELSE 0)

\* C8 witness: a fatal Run with an empty selection has ended with status 0.
C8_Witness ==
    /\ Done
    /\ EmptySelected
    /\ err_strategy = "fatal"
    /\ ~Faulted
    /\ exitStatus = 0

\* C9: a nonzero exit of any internal jj command ends the Run with a nonzero
\* status under every strategy; no materialize, user command, edit or
\* restore is issued after the fault; and the status is only set after the
\* forget of the opened workspace was issued.
C9_GatewayFaultIsFatal ==
    /\ \A i \in DOMAIN ops :
          IsFault(i) => \A j \in (i + 1)..Len(ops) : ops[j].op \notin PerChangeOps
    /\ (Done /\ Faulted) => exitStatus # 0
    /\ (exitStatus # -1 /\ Faulted /\ WorkspaceOpened) => Issued("forget") # {}

\* C9 witness: a continue Run has ended nonzero after `jj new` faulted on its
\* second change, with the forget issued.
C9_Witness ==
    /\ Done
    /\ err_strategy = "continue"
    /\ \E i \in Issued("new") : ops[i].rc # 0 /\ InputIndex(ops[i].arg) = 2
    /\ Issued("forget") # {}
    /\ exitStatus = 1

\* The emptiness queries answered so far that reported "empty or absent".
ReportedEmpty == {i \in 1..Len(reports) : reports[i] \in {"true", ""}}
ReportedNonEmpty == {i \in 1..Len(reports) : reports[i] = "false"}

\* C10: for a new change reported empty or absent, no edit (of its parent)
\* and no restore (from it) is issued and the original change keeps the
\* content it had before the Run; modified_count counts the restores done,
\* and when the rewriter returns it is the number of new changes reported
\* non-empty.
C10_EmptyChangesSkipped ==
    /\ \A i \in ReportedEmpty :
          /\ \A j \in DOMAIN ops :
                /\ ~(ops[j].op = "restore" /\ ops[j].arg = new_changes[i].change_id)
                /\ ~(ops[j].op = "edit" /\ ops[j].arg = new_changes[i].parents[1])
          /\ content[new_changes[i].parents[1]] = InitContent[new_changes[i].parents[1]]
    /\ modified_count >= 0 =>
          modified_count =
              Cardinality({i \in DOMAIN ops : ops[i].op = "restore" /\ ops[i].rc = 0})
    /\ (\E i \in DOMAIN ops : ops[i].op = "update_stale") =>
          /\ Len(reports) = Len(new_changes)
          /\ modified_count = Cardinality(ReportedNonEmpty)

\* C10 witness: a Run over three changes has ended in which two new changes
\* were reported absent and one non-empty, and one commit was rewritten.
C10_Witness ==
    /\ Done
    /\ Len(reports) = 3
    /\ \E i, k \in 1..Len(reports) : reports[i] = "" /\ reports[k] = "false"
    /\ modified_count = 1

\* ---- transplant -----------------------------------------------------------
\* The user command on c left files that were snapshotted into the scratch
\* change on c.
ModifiedBy(c) == Mark(c) \in content[Scratch(c)]
\* The restore from the scratch change on c has succeeded.
Transplanted(c) ==
    \E i \in DOMAIN ops :
        ops[i].op = "restore" /\ ops[i].arg = Scratch(c) /\ ops[i].rc = 0
\* c holds what the command left in the scratch change on c.
HoldsCommandResult(c) ==
    /\ content[c] = content[Scratch(c)]
    /\ content[c] = InitContent[c] \cup {Mark(c)}

\* C11 as stated: in a Run where every user command exited 0, once the Run
\* has ended every input change whose command produced a non-empty diff holds
\* exactly the content the command left in its scratch change.
C11_TransplantComplete ==
    (Done /\ Failures = {}) =>
        \A k \in 1..Len(changes) :
            ModifiedBy(changes[k]) => HoldsCommandResult(changes[k])

\* C11 amended: an input change whose restore has succeeded holds the content
\* the command left in its scratch change from then on, whatever is
\* transplanted later; and in a Run that has ended, where every user command
\* exited 0 and no jj command faulted, that is every input change whose
\* command produced a non-empty diff.
C11_TransplantAmended ==
    /\ \A i \in DOMAIN ops :
          (ops[i].op = "restore" /\ ops[i].rc = 0) =>
              \A c \in Originals : ops[i].arg = Scratch(c) => HoldsCommandResult(c)
    /\ (Done /\ Failures = {} /\ ~Faulted) =>
          \A k \in 1..Len(changes) :
              ModifiedBy(changes[k]) =>
                  Transplanted(changes[k]) /\ HoldsCommandResult(changes[k])

\* C11 witness: a fault-free Run with no failing command has ended after
\* transplanting onto three input changes, the first of them two restores
\* before the last.
C11_Witness ==
    /\ Done
    /\ Failures = {}
    /\ ~Faulted
    /\ Len(changes) = 3
    /\ \A k \in 1..3 : Transplanted(changes[k]) /\ HoldsCommandResult(changes[k])

\* ---- failure reports ------------------------------------------------------
\* The first line handle_errors prints under each strategy.
MarkerOf(strategy) ==
    CASE strategy = "continue" -> "Error while processing change"
      [] strategy = "stop" -> "Stopped on change [with fail]"
      [] strategy = "fatal" -> "Fatal error at change"

\* The report printed right after the command at log position i, before the
\* next command is issued.
ReportsFor(i) == {k \in DOMAIN out : out[k].at = i}

RewriteOps == {"log_empty", "edit", "restore"}
\* rewrite_parents has visited the whole new-change list and returned.
RewriteReturned ==
    /\ new_changes # <<>>
    /\ Len(reports) = Len(new_changes)
    /\ pc \notin {"edit", "restore"}
    /\ \A i \in DOMAIN ops : ops[i].op \in {"edit", "restore"} => ops[i].rc = 0
\* The update-stale commands issued, in order.
IsRefresh(o) == o.op = "update_stale"
Refreshes == SelectSeq(ops, IsRefresh)
\* Positions of the update-stale issued in directory d.
RefreshIn(d) == {i \in DOMAIN ops : ops[i].op = "update_stale" /\ ops[i].cwd = d}

WorkspaceOnlyOps == {"new", "command", "log_empty", "edit", "restore"}

\* C14: every materialize, user command, emptiness query, edit and restore is
\* issued with the scratch workspace as its directory, never the caller's, and
\* every abandon, which is issued from the caller's directory, carries
\* --ignore-working-copy.
C14_CallerWorkingCopyUntouched ==
    \A i \in DOMAIN ops :
        /\ ops[i].op \in WorkspaceOnlyOps => ops[i].cwd = "ws"
        /\ ops[i].op = "abandon" =>
              ops[i].cwd = "." /\ "--ignore-working-copy" \in ops[i].flags

\* C14 witness: a restore has succeeded in the workspace, the refresh of the
\* caller's directory has followed and the cleanup has abandoned two changes.
C14_Witness ==
    /\ \E i \in Issued("restore") : ops[i].rc = 0 /\ ops[i].cwd = "ws"
    /\ RefreshIn(".") # {}
    /\ \E i, j \in Issued("abandon") :
          i # j /\ "--ignore-working-copy" \in ops[j].flags

\* ---- abandon of an absent change --------------------------------------------
\* The abandon the cleanup is about to issue names a change that is not in
\* the repository (already abandoned, or dropped by jj when the workspace
\* moved off it).
AbandonsAbsent == pc = "abandon" /\ abandon_list[aidx] \notin present

\* C15: whenever the cleanup is about to abandon a change that is absent, the
\* abandon can succeed, and when it does nothing is raised and the repository
\* (visible changes, parents, contents, working copy) is what it was.
C15_AbandonAbsentIsNoOp ==
    AbandonsAbsent =>
        ENABLED (/\ AbandonStep
                 /\ ops'[Len(ops')].rc = 0
                 /\ exc' = exc
                 /\ UNCHANGED repoVars)

\* C15 witness: the bootstrap change was dropped by the first `jj new`, the
\* cleanup abandoned it all the same, and the Run ended with status 0.
C15_Witness ==
    /\ Done
    /\ exitStatus = 0
    /\ \E i \in IssuedOn("abandon", Bootstrap) :
          /\ ops[i].rc = 0
          /\ \E j \in Issued("new") : j < i /\ ops[j].rc = 0

\* ---- the new-change list ----------------------------------------------------
\* The batch stage is between two input changes or over.
BetweenChanges == pc \notin {"command", "record"}
\* Input changes attempted so far: those the user command was run on.
Attempted == {ops[i].arg : i \in Issued("command")}

\* C16: after every attempted input change, whether its command succeeded or
\* failed and under every strategy, the working-copy change of the workspace
\* has been appended to the new-change list of the batch stage: with no jj
\* command faulting, the list has exactly one entry per attempted input change,
\* the scratch change created on it, and none for the changes not attempted.
C16_OneEntryPerAttempt ==
    (BetweenChanges /\ ~Faulted) =>
        /\ Len(pc_new_changes) = Cardinality(Issued("command"))
        /\ \A c \in Attempted :
              \E k \in DOMAIN pc_new_changes : pc_new_changes[k].parents = <<c>>
        /\ \A k \in DOMAIN pc_new_changes : pc_new_changes[k].parents[1] \in Attempted

\* ---- order ------------------------------------------------------------------
\* The changes the commands of one kind were issued on, in the order of issue.
IsNew(o) == o.op = "new"
IsCommand(o) == o.op = "command"
IsEmptinessQuery(o) == o.op = "log_empty"
Materialized == SelectSeq(ops, IsNew)
Commanded == SelectSeq(ops, IsCommand)
Visited == SelectSeq(ops, IsEmptinessQuery)

\* C17: the input changes are materialized and commanded in exactly the order
\* of the selection query's answer, the i-th entry of the new-change list is
\* the scratch change made on the i-th input change, and the rewriter visits
\* the new-change list in that same order.
C17_OrderPreserved ==
    LET m == Materialized
        c == Commanded
        v == Visited
    IN /\ \A k \in DOMAIN m : m[k].arg = changes[k]
       /\ \A k \in DOMAIN c : c[k].arg = changes[k]
       /\ \A k \in DOMAIN pc_new_changes :
             /\ pc_new_changes[k].change_id = Scratch(changes[k])
             /\ pc_new_changes[k].parents = <<changes[k]>>
       /\ \A k \in DOMAIN new_changes : new_changes[k] = pc_new_changes[k]
       /\ \A k \in DOMAIN v : v[k].arg = new_changes[k].change_id

\* C17 witness: three input changes were processed and the rewriter has
\* queried all three scratch changes.
C17_Witness ==
    /\ Len(changes) = 3
    /\ Len(Commanded) = 3
    /\ Len(new_changes) = 3
    /\ Len(Visited) = 3
    /\ Visited[3].arg = Scratch(changes[3])

\* ---- two passes -------------------------------------------------------------
\* C18: every edit and every restore of the rewriter is issued after the last
\* user-command invocation of the batch stage; the two never interleave.
C18_RewriteAfterBatch ==
    \A i \in DOMAIN ops :
        ops[i].op \in {"edit", "restore"} =>
            \A j \in (i + 1)..Len(ops) : ops[j].op \notin {"command", "new"}

\* C18 witness: the command ran on two changes, then both were rewritten.
C18_Witness ==
    /\ Cardinality(Issued("command")) = 2
    /\ Cardinality({i \in Issued("restore") : ops[i].rc = 0}) = 2

\* ---- the success flag -------------------------------------------------------
\* process_changes has returned its pair to run_jj_command.
BatchReturned == modified_count >= 0

\* C19: the success flag is true exactly as long as no user command has
\* returned nonzero, under every strategy, so it starts true, turns false at
\* the first failure and never turns true again; when the batch stage has
\* returned normally it is false if and only if an attempted command failed.
C19_SuccessFlag ==
    LET failed == \E i \in DOMAIN ops : ops[i].op = "command" /\ ops[i].rc # 0
    IN /\ all_successful <=> ~failed
       /\ BatchReturned => (~all_successful <=> failed)

\* C19 witness: the batch stage has returned after a failing command that was
\* followed by a succeeding one, and the flag is false.
C19_Witness ==
    /\ BatchReturned
    /\ ~all_successful
    /\ \E i \in Failures, j \in Issued("command") : i < j /\ ops[j].rc = 0

\* ---- termination of the parsing loop ---------------------------------------
\* C20: the parsing loop terminates on every answer, because every iteration
\* that stays in the loop leaves less input than it found, also after a decode
\* failure and also when the undecodable rest has no line break: the
\* iterations made so far and the characters still to read never add up to
\* more than the length of the answer.
C20_ParsingTerminates ==
    gcl_pc = "loop" => iterations + Len(combined_output) <= Len(gcl_stdout)

\* ---- well-formed answers ----------------------------------------------------
\* The kinds of the records of an answer, in stream order, reading it as
\* records with optional whitespace around them; "bad" stands for the rest of
\* an answer from the first character that fits neither.
RECURSIVE RecordsOf(_)
RecordsOf(s) ==
    IF s = <<>> THEN <<>>
    ELSE IF IsSpace(Head(s)) THEN RecordsOf(Tail(s))
    ELSE IF Len(s) >= 2 /\ s[1] = "{" /\ s[2] \in RecordKinds
         THEN <<s[2]>> \o RecordsOf(SubSeq(s, 3, Len(s)))
         ELSE <<"bad">>

\* The answer is a concatenation of records that have both identities.
WellFormed(s) == \A k \in DOMAIN RecordsOf(s) : RecordsOf(s)[k] \in {"F", "O"}

\* The Change a record of each kind stands for.
ChangeOf(kind) ==
    IF kind = "F"
    THEN [change_id |-> "c", commit_id |-> "k", description |-> "d",
          parents |-> <<"p">>]
    ELSE [change_id |-> "c", commit_id |-> "k", description |-> "",
          parents |-> <<>>]

\* C21: on an answer that is a concatenation of well-formed records, with or
\* without whitespace or line breaks around them, the parser raises nothing,
\* every iteration consumes one record, and the list it returns has one Change
\* per record in stream order: the four fields of a full record, and
\* description "" and parents <<>> for a record without those keys.  The empty
\* answer gives the empty list.
C21_OneChangePerRecord ==
    WellFormed(gcl_stdout) =>
        LET r == RecordsOf(gcl_stdout)
        IN /\ gcl_pc # "raised"
           /\ gcl_pc = "loop" =>
                 /\ iterations = Len(gcl_changes)
                 /\ Len(gcl_changes) + Len(RecordsOf(combined_output)) = Len(r)
           /\ \A k \in DOMAIN gcl_changes : gcl_changes[k] = ChangeOf(r[k])
           /\ gcl_pc = "returned" => Len(gcl_changes) = Len(r)

\* C21 witness: the parser has returned two changes for an answer of a full
\* record, a line break and a record without the optional keys.
C21_Witness ==
    /\ gcl_pc = "returned"
    /\ gcl_stdout = <<"{", "F", "\n", "{", "O">>
    /\ Len(gcl_changes) = 2
    /\ gcl_changes[1].description = "d"
    /\ gcl_changes[2].description = ""
    /\ gcl_changes[2].parents = <<>>

\* ---- command after materialize ----------------------------------------------
\* C22: the user command is issued on an input change only right after a
\* `jj new` on that same change has succeeded, and on no change twice; once a
\* `jj new` has faulted, no user command is issued any more.
C22_CommandOnlyAfterMaterialize ==
    /\ \A i \in DOMAIN ops :
          /\ ops[i].op = "command" =>
                /\ i > 1
                /\ ops[i - 1].op = "new"
                /\ ops[i - 1].arg = ops[i].arg
                /\ ops[i - 1].rc = 0
          /\ (ops[i].op = "new" /\ ops[i].rc # 0) =>
                \A j \in (i + 1)..Len(ops) : ops[j].op # "command"
    /\ LET c == Commanded
       IN \A a, b \in DOMAIN c : a < b => c[a].arg # c[b].arg

\* C22 witness: of three input changes the first two had the command run on
\* them; `jj new` faulted on the third and the Run has ended.
C22_Witness ==
    /\ Done
    /\ Len(changes) = 3
    /\ \E i \in DOMAIN ops :
          ops[i].op = "new" /\ ops[i].arg = changes[3] /\ ops[i].rc # 0
    /\ Cardinality(Issued("command")) = 2

\* ---- forget comes last ------------------------------------------------------
\* The commands of a Run that change the repository or a working copy, forget
\* aside.
MutatingOps == {"new", "command", "edit", "restore", "update_stale", "abandon"}

\* C23: after the workspace-forget no materialize, user command, edit,
\* restore, update-stale or abandon is issued; and on every exit path of a Run
\* that opened the workspace the forget has been issued, after the abandon of
\* the bootstrap change whenever there was one.
C23_ForgetIsLast ==
    /\ \A i \in DOMAIN ops :
          ops[i].op = "forget" =>
              \A j \in (i + 1)..Len(ops) : ops[j].op \notin MutatingOps
    /\ Done =>
          \A i \in DOMAIN ops :
              ((ops[i].op = "workspace_add" /\ ops[i].rc = 0)
               \/ (ops[i].op = "abandon" /\ ops[i].arg = Bootstrap)) =>
                  \E j \in (i + 1)..Len(ops) : ops[j].op = "forget"

\* C23 witness: a Run that rewrote a change has ended normally; the bootstrap
\* change was abandoned, then the workspace forgotten, and only the closing
\* operation query came after.
C23_Witness ==
    /\ Done
    /\ exitStatus = 0
    /\ modified_count >= 1
    /\ Len(ops) >= 3
    /\ ops[Len(ops)].op = "op_log"
    /\ ops[Len(ops) - 1].op = "forget"
    /\ ops[Len(ops) - 2].op = "abandon"
    /\ ops[Len(ops) - 2].arg = Bootstrap

\* ---- a record without an identity -------------------------------------------
\* Position k of s starts a decodable record that lacks change_id.
RecordWithoutIdAt(s, k) == k < Len(s) /\ s[k] = "{" /\ s[k + 1] = "K"
\* The text contains such a record somewhere.
ContainsRecordWithoutId(s) == \E k \in DOMAIN s : RecordWithoutIdAt(s, k)
\* Such a record is the first thing in the answer that is not a complete
\* record or whitespace.
ReachesRecordWithoutId(s) ==
    LET r == RecordsOf(s)
    IN \E k \in DOMAIN r : r[k] = "K" /\ \A j \in 1..(k - 1) : r[j] \in {"F", "O"}
\* The Run has ended on the exception that came out of get_change_list.
AbortedAfterForget ==
    /\ exitStatus = 1
    /\ exc.kind \in {"KeyError", "CalledProcessError"}
    /\ workspace_change = NoArg
    /\ Len(ops) >= 2
    /\ ops[Len(ops)].op = "forget"
    /\ ops[Len(ops) - 1].op = "log"
    /\ exc.kind = "CalledProcessError" <=> ops[Len(ops)].rc # 0

====
